---- MODULE Spec2Model ----
(***************************************************************************)
(* State machine of the MP3 drag-and-drop player (src/script.js): the      *)
(* playlist, the selected track, the isPlaying flag, the <audio> element   *)
(* the handlers drive, and the parts of the page the handlers write.       *)
(* Indices are JavaScript's: 0-based, -1 for "no track".                   *)
(*                                                                         *)
(* src/unnamed/part_000 is the earlier version of the same file: the same  *)
(* removeTrack, loadTrack, pauseTrack, playPrev, playNext and seekTo, with *)
(* no size check, no notifications and no 'error' listener.  The model     *)
(* follows src/script.js.                                                  *)
(*                                                                         *)
(* An uncaught exception ends a handler where it is thrown and keeps the   *)
(* assignments made before it.  The text of the progress bar and of the    *)
(* two time labels is written by updateProgress and updateDuration and     *)
(* read by nothing; it is left out of the state.                           *)
(***************************************************************************)
EXTENDS Integers, Sequences, FiniteSets, TLC

VARIABLES
    playlist,           \* script.js:16  array of tracks [name, url]
    currentTrackIndex,  \* script.js:17
    isPlaying,          \* script.js:18
    src,                \* audioPlayer.src: a URL id, EmptySrc or NoSrc
    enginePlaying,      \* whether the media element is really playing
    currentTime,        \* audioPlayer.currentTime
    durationKnown,      \* FALSE while audioPlayer.duration is NaN
    pending,            \* media event queued and not yet delivered
    nextUrl,            \* next id URL.createObjectURL hands out
    revoked,            \* URL ids passed to URL.revokeObjectURL
    rows,               \* number of <li> rows renderPlaylist left in the page
    activeRow,          \* row carrying class "active", or NoTrack
    currentTrackEl,     \* currentTrackEl.textContent
    playBtn,            \* playBtn.textContent
    notes,              \* notifications shown by the last handler
    thrown,             \* the last handler ended in an uncaught TypeError
    srcRevoked,         \* during the last handler audioPlayer.src was, at
                        \* some statement, a URL already revoked
    last                \* the last handler run

vars == <<playlist, currentTrackIndex, isPlaying, src, enginePlaying,
          currentTime, durationKnown, pending, nextUrl, revoked, rows,
          activeRow, currentTrackEl, playBtn, notes, thrown, srcRevoked,
          last>>

-----------------------------------------------------------------------------
(* Bounds of the model *)

\* longest playlist explored
MaxLen == 3
\* most files in one drop or one file-picker selection
MaxBatch == 2
\* length of every track, in seconds; also the width of the progress bar
Duration == 2

\* object URLs handed out over a run
MaxUrls == MaxLen

-----------------------------------------------------------------------------
(* Program constants *)

MAX_FILE_SIZE == 50 * 1024 * 1024
NoTrack == -1
EmptySrc == 0
NoSrc == -1
GlyphPlay == "play-glyph"
GlyphPause == "pause-glyph"
NoTrackText == "No track selected"

-----------------------------------------------------------------------------
(* File names are sequences of characters, so that the extension test and  *)
(* the extension stripping are computed, not assumed.                      *)

ToLower(c) ==
    CASE c = "M" -> "m"
      [] c = "P" -> "p"
      [] c = "A" -> "a"
      [] c = "B" -> "b"
      [] c = "E" -> "e"
      [] c = "G" -> "g"
      [] OTHER -> c

toLowerCase(s) == [i \in 1..Len(s) |-> ToLower(s[i])]

endsWith(s, ext) ==
    /\ Len(ext) <= Len(s)
    /\ SubSeq(s, Len(s) - Len(ext) + 1, Len(s)) = ext

\* name.replace(/\.[^/.]+$/, ''): drop a final ".xyz" with xyz non-empty and
\* free of "/" and "."
StripExt(s) ==
    LET dots == {i \in 1..Len(s) :
                    /\ s[i] = "."
                    /\ i < Len(s)
                    /\ \A j \in (i+1)..Len(s) : s[j] # "/" /\ s[j] # "."}
    IN IF dots = {} THEN s
       ELSE SubSeq(s, 1, (CHOOSE i \in dots : \A k \in dots : i <= k) - 1)

validMimeTypes ==
    {"audio/mp3", "audio/mpeg", "audio/x-mpeg", "audio/mpeg3", "audio/mpg",
     "audio/x-mpg", "audio/x-mpeg-3"}

validExtensions ==
    {<<".", "m", "p", "3">>, <<".", "m", "p", "2">>,
     <<".", "m", "p", "g", "a">>, <<".", "m", "p", "g">>,
     <<".", "m", "p", "e", "g">>}

\* toLowerCase() forgotten in the extension test
checkIfMp3_CaseSensitive(file) ==
    \/ file.type \in validMimeTypes
    \/ \E ext \in validExtensions : endsWith(file.name, ext)

checkIfMp3(file) ==
    \/ file.type \in validMimeTypes
    \/ \E ext \in validExtensions : endsWith(toLowerCase(file.name), ext)

\* the test handleFiles applies to one file
Accepts(file) == file.size <= MAX_FILE_SIZE /\ checkIfMp3(file)

\* the branch of the loop body of handleFiles a file takes: the size test
\* comes first and warns "exceeds 50MB limit", the type test second and
\* warns "is not a valid MP3 file"
Validate(file) ==
    IF file.size > MAX_FILE_SIZE THEN "TooLarge"
    ELSE IF checkIfMp3(file) THEN "Accepted"
    ELSE "UnsupportedType"

-----------------------------------------------------------------------------
(* The files a user may drop or pick *)

Name_a_mp3 == <<"a", ".", "m", "p", "3">>
Name_b_MP3 == <<"b", ".", "M", "P", "3">>

File(name, type, size) == [name |-> name, type |-> type, size |-> size]

\* one accepted by its type, one by its extension alone, one too large
Files ==
    {File(Name_a_mp3, "audio/mpeg", 1),
     File(Name_b_MP3, "", MAX_FILE_SIZE),
     File(Name_a_mp3, "audio/mpeg", MAX_FILE_SIZE + 1)}

Batches == UNION {[1..n -> Files] : n \in 0..MaxBatch}

AcceptedFiles == {file \in Files : Accepts(file)}

NumAccepted(files) ==
    Cardinality({i \in 1..Len(files) : files[i] \in AcceptedFiles})

\* the files the validation is tried on: every MPEG extension, one in upper
\* case, other extensions, no extension, an MPEG extension that is not the
\* last one; a listed type, another listed type, no type, an unlisted type;
\* a small file, one of exactly the limit, one a byte over it
ValidatorNames ==
    {<<"t", ".", "m", "p", "3">>,
     <<"t", ".", "M", "P", "3">>,
     <<"t", ".", "m", "p", "2">>,
     <<"t", ".", "m", "p", "g", "a">>,
     <<"t", ".", "m", "p", "g">>,
     <<"t", ".", "M", "P", "E", "G">>,
     <<"t", ".", "w", "a", "v">>,
     <<"t", ".", "m", "p", "4">>,
     <<"t", "m", "p", "3">>,
     <<"t", ".", "m", "p", "3", ".", "t", "x", "t">>}

ValidatorTypes == {"audio/mpeg", "audio/x-mpeg-3", "", "audio/wav"}

ValidatorSizes == {1, MAX_FILE_SIZE, MAX_FILE_SIZE + 1}

ValidatorFiles ==
    {File(name, type, size) : name \in ValidatorNames,
                              type \in ValidatorTypes,
                              size \in ValidatorSizes}

-----------------------------------------------------------------------------
(* The handlers, as functions from the state before to the state after.    *)
(* A state is a record with one field per variable.                        *)

State ==
    [playlist |-> playlist, currentTrackIndex |-> currentTrackIndex,
     isPlaying |-> isPlaying, src |-> src, enginePlaying |-> enginePlaying,
     currentTime |-> currentTime, durationKnown |-> durationKnown,
     pending |-> pending, nextUrl |-> nextUrl, revoked |-> revoked,
     rows |-> rows, activeRow |-> activeRow,
     currentTrackEl |-> currentTrackEl, playBtn |-> playBtn,
     notes |-> notes, thrown |-> thrown, srcRevoked |-> srcRevoked,
     last |-> last]

\* playlist[index] of the source, 0-based
At(pl, index) == pl[index + 1]

InRange(pl, index) == index >= 0 /\ index < Len(pl)

\* Math.min forgotten: the removed index is reused as it is
Min_First(a, b) == a

Min(a, b) == IF a < b THEN a ELSE b

\* the last element removed whichever the index
Splice_Last(pl, index) == SubSeq(pl, 1, Len(pl) - 1)

\* Array.prototype.splice(index, 1)
Splice(pl, index) ==
    [i \in 1..(Len(pl) - 1) |-> IF i <= index THEN pl[i] ELSE pl[i + 1]]

Note(message, count, type) ==
    [message |-> message, count |-> count, type |-> type]

showNotification(s, message, count, type) ==
    [s EXCEPT !.notes = Append(@, Note(message, count, type))]

renderPlaylist(s) ==
    [s EXCEPT !.rows = Len(s.playlist),
              !.activeRow = IF InRange(s.playlist, s.currentTrackIndex)
                            THEN s.currentTrackIndex ELSE NoTrack]

\* audioPlayer.play(): never throws, it returns a promise.  Without a media
\* resource the element does not play.  Playback that had ended restarts
\* from 0.
EnginePlay(s) ==
    LET starts == s.src # NoSrc /\ s.src # EmptySrc
    IN [s EXCEPT !.enginePlaying = starts,
                 !.currentTime = IF starts /\ s.durationKnown /\ @ = Duration
                                 THEN 0 ELSE @]

\* assigning audioPlayer.src: the element drops what it had and loads anew
EngineSetSrc(s, url) ==
    [s EXCEPT !.src = url, !.enginePlaying = FALSE, !.currentTime = 0,
              !.durationKnown = FALSE]

EnginePause(s) == [s EXCEPT !.enginePlaying = FALSE]

playTrack(s) ==
    [EnginePlay(s) EXCEPT !.playBtn = GlyphPause, !.isPlaying = TRUE]

pauseTrack(s) ==
    [EnginePause(s) EXCEPT !.playBtn = GlyphPlay, !.isPlaying = FALSE]

\* track.url of an undefined track throws after currentTrackIndex is set
loadTrack(s, index) ==
    LET s1 == [s EXCEPT !.currentTrackIndex = index]
    IN IF ~InRange(s.playlist, index)
       THEN [s1 EXCEPT !.thrown = TRUE]
       ELSE LET track == At(s.playlist, index)
                s2 == EngineSetSrc(s1, track.url)
                s3 == [s2 EXCEPT !.currentTrackEl = track.name]
            IN playTrack(renderPlaylist(s3))

\* isPlaying = false forgotten when the last track goes
stopPlayer_KeepPlaying(s) ==
    [EngineSetSrc(EnginePause([s EXCEPT !.currentTrackIndex = NoTrack]),
                  EmptySrc)
     EXCEPT !.currentTrackEl = NoTrackText,
            !.playBtn = GlyphPlay]

\* audioPlayer.src = '' forgotten when the last track goes
stopPlayer_KeepSrc(s) ==
    [EnginePause([s EXCEPT !.currentTrackIndex = NoTrack])
     EXCEPT !.currentTrackEl = NoTrackText,
            !.playBtn = GlyphPlay,
            !.isPlaying = FALSE]

\* currentTrackIndex = -1 forgotten when the last track goes
stopPlayer_KeepIndex(s) ==
    [EngineSetSrc(EnginePause(s), EmptySrc)
     EXCEPT !.currentTrackEl = NoTrackText,
            !.playBtn = GlyphPlay,
            !.isPlaying = FALSE]

\* removeTrack, the branch that empties the player: the last track is gone
stopPlayer(s) ==
    [EngineSetSrc(EnginePause([s EXCEPT !.currentTrackIndex = NoTrack]),
                  EmptySrc)
     EXCEPT !.currentTrackEl = NoTrackText,
            !.playBtn = GlyphPlay,
            !.isPlaying = FALSE]

\* URL.revokeObjectURL forgotten: the removed track's URL leaks
removeTrack_NoRevoke(s, index) ==
    IF ~InRange(s.playlist, index)
    THEN [s EXCEPT !.thrown = TRUE]
    ELSE
    LET s1 == [s EXCEPT !.playlist = Splice(@, index)]
        s2 == IF index = s.currentTrackIndex
              THEN IF Len(s1.playlist) > 0
                   THEN loadTrack(s1, Min(index, Len(s1.playlist) - 1))
                   ELSE stopPlayer(s1)
              ELSE IF index < s.currentTrackIndex
                   THEN [s1 EXCEPT !.currentTrackIndex = @ - 1]
                   ELSE s1
    IN IF s2.thrown THEN s2 ELSE renderPlaylist(s2)

\* currentTrackIndex-- forgotten when a track before the current one goes
removeTrack_NoShift(s, index) ==
    IF ~InRange(s.playlist, index)
    THEN [s EXCEPT !.thrown = TRUE]
    ELSE
    LET s1 == [s EXCEPT !.revoked = @ \cup {At(s.playlist, index).url},
                        !.srcRevoked = (s.src = At(s.playlist, index).url),
                        !.playlist = Splice(@, index)]
        s2 == IF index = s.currentTrackIndex
              THEN IF Len(s1.playlist) > 0
                   THEN loadTrack(s1, Min(index, Len(s1.playlist) - 1))
                   ELSE stopPlayer(s1)
              ELSE s1
    IN IF s2.thrown THEN s2 ELSE renderPlaylist(s2)

removeTrack(s, index) ==
    IF ~InRange(s.playlist, index)
    THEN [s EXCEPT !.thrown = TRUE]
    ELSE
    LET s1 == [s EXCEPT !.revoked = @ \cup {At(s.playlist, index).url},
                        !.srcRevoked = (s.src = At(s.playlist, index).url),
                        !.playlist = Splice(@, index)]
        s2 == IF index = s.currentTrackIndex
              THEN IF Len(s1.playlist) > 0
                   THEN loadTrack(s1, Min(index, Len(s1.playlist) - 1))
                   ELSE stopPlayer(s1)
              ELSE IF index < s.currentTrackIndex
                   THEN [s1 EXCEPT !.currentTrackIndex = @ - 1]
                   ELSE s1
    IN IF s2.thrown THEN s2 ELSE renderPlaylist(s2)

\* the for loop of handleFiles: <<playlist, nextUrl, validFiles, invalidFiles>>
RECURSIVE ScanFiles(_, _, _, _, _)
ScanFiles(files, pl, url, validFiles, invalidFiles) ==
    IF files = <<>> THEN <<pl, url, validFiles, invalidFiles>>
    ELSE LET file == Head(files)
         IN IF file.size > MAX_FILE_SIZE
            THEN ScanFiles(Tail(files), pl, url, validFiles, invalidFiles + 1)
            ELSE IF checkIfMp3(file)
            THEN ScanFiles(Tail(files),
                           Append(pl, [name |-> StripExt(file.name),
                                       url |-> url]),
                           url + 1, validFiles + 1, invalidFiles)
            ELSE ScanFiles(Tail(files), pl, url, validFiles, invalidFiles + 1)

\* the automatic loadTrack(0) after the first files forgotten
handleFiles_NoAutoload(s, files) ==
    LET r == ScanFiles(files, s.playlist, s.nextUrl, 0, 0)
        s1 == [s EXCEPT !.playlist = r[1], !.nextUrl = r[2]]
        s2 == IF r[4] > 0
              THEN showNotification(s1, "Skipped invalid file(s)", r[4],
                                    "warning")
              ELSE s1
    IN IF r[3] > 0 THEN renderPlaylist(s2) ELSE s2

handleFiles(s, files) ==
    LET r == ScanFiles(files, s.playlist, s.nextUrl, 0, 0)
        s1 == [s EXCEPT !.playlist = r[1], !.nextUrl = r[2]]
        s2 == IF r[4] > 0
              THEN showNotification(s1, "Skipped invalid file(s)", r[4],
                                    "warning")
              ELSE s1
    IN IF r[3] > 0
       THEN LET s3 == renderPlaylist(s2)
            IN IF s3.currentTrackIndex = NoTrack
               THEN loadTrack(s3, 0)
               ELSE s3
       ELSE s2

\* the resume branch forgotten: a paused track stays paused
togglePlay_NoResume(s) ==
    IF s.currentTrackIndex = NoTrack
    THEN IF Len(s.playlist) > 0
         THEN loadTrack(s, 0)
         ELSE showNotification(s, "Please add MP3 files to the playlist", 0,
                               "warning")
    ELSE pauseTrack(s)

togglePlay(s) ==
    IF s.currentTrackIndex = NoTrack
    THEN IF Len(s.playlist) > 0
         THEN loadTrack(s, 0)
         ELSE showNotification(s, "Please add MP3 files to the playlist", 0,
                               "warning")
    ELSE IF s.isPlaying THEN pauseTrack(s) ELSE playTrack(s)

playPrev(s) ==
    IF s.currentTrackIndex > 0
    THEN loadTrack(s, s.currentTrackIndex - 1)
    ELSE loadTrack(s, Len(s.playlist) - 1)

\* the wrap to the first track forgotten
playNext_NoWrap(s) == loadTrack(s, s.currentTrackIndex + 1)

playNext(s) ==
    IF s.currentTrackIndex < Len(s.playlist) - 1
    THEN loadTrack(s, s.currentTrackIndex + 1)
    ELSE loadTrack(s, 0)

\* pauseTrack() forgotten in the error handler
handleAudioError_NoPause(s) ==
    showNotification(s, "Error with audio file", 0, "error")

handleAudioError(s) ==
    pauseTrack(showNotification(s, "Error with audio file", 0, "error"))

\* audioPlayer.currentTime = percent * audioPlayer.duration, the click being
\* x pixels into a bar "width" pixels wide; a NaN duration makes the product
\* NaN, which the currentTime setter refuses with a TypeError
seekTo(s, x, width) ==
    IF ~s.durationKnown
    THEN [s EXCEPT !.thrown = TRUE]
    ELSE [s EXCEPT !.currentTime = (x * Duration) \div width]

-----------------------------------------------------------------------------
(* The state machine *)

InitState ==
    [playlist |-> <<>>, currentTrackIndex |-> NoTrack, isPlaying |-> FALSE,
     src |-> NoSrc, enginePlaying |-> FALSE, currentTime |-> 0,
     durationKnown |-> FALSE, pending |-> "none", nextUrl |-> 1,
     revoked |-> {}, rows |-> 0, activeRow |-> NoTrack,
     currentTrackEl |-> NoTrackText, playBtn |-> GlyphPlay, notes |-> <<>>,
     thrown |-> FALSE, srcRevoked |-> FALSE,
     last |-> [op |-> "init", index |-> NoTrack, cur |-> NoTrack]]

Init ==
    /\ playlist = InitState.playlist
    /\ currentTrackIndex = InitState.currentTrackIndex
    /\ isPlaying = InitState.isPlaying
    /\ src = InitState.src
    /\ enginePlaying = InitState.enginePlaying
    /\ currentTime = InitState.currentTime
    /\ durationKnown = InitState.durationKnown
    /\ pending = InitState.pending
    /\ nextUrl = InitState.nextUrl
    /\ revoked = InitState.revoked
    /\ rows = InitState.rows
    /\ activeRow = InitState.activeRow
    /\ currentTrackEl = InitState.currentTrackEl
    /\ playBtn = InitState.playBtn
    /\ notes = InitState.notes
    /\ thrown = InitState.thrown
    /\ srcRevoked = InitState.srcRevoked
    /\ last = InitState.last

\* the state a handler starts from: its notifications and its exception are
\* its own; "last" keeps which handler it is, the index it was given and the
\* currentTrackIndex it found
Begin(s, op, index) ==
    [s EXCEPT !.notes = <<>>, !.thrown = FALSE, !.srcRevoked = FALSE,
              !.last = [op |-> op, index |-> index,
                        cur |-> s.currentTrackIndex]]

Enter(op, index) == Begin(State, op, index)

\* a step of the media element itself: no handler runs
Engine ==
    [State EXCEPT !.notes = <<>>, !.thrown = FALSE, !.srcRevoked = FALSE,
                  !.last = [op |-> "engine", index |-> NoTrack,
                            cur |-> NoTrack]]

Becomes(t) ==
    /\ playlist' = t.playlist
    /\ currentTrackIndex' = t.currentTrackIndex
    /\ isPlaying' = t.isPlaying
    /\ src' = t.src
    /\ enginePlaying' = t.enginePlaying
    /\ currentTime' = t.currentTime
    /\ durationKnown' = t.durationKnown
    /\ pending' = t.pending
    /\ nextUrl' = t.nextUrl
    /\ revoked' = t.revoked
    /\ rows' = t.rows
    /\ activeRow' = t.activeRow
    /\ currentTrackEl' = t.currentTrackEl
    /\ playBtn' = t.playBtn
    /\ notes' = t.notes
    /\ thrown' = t.thrown
    /\ srcRevoked' = t.srcRevoked
    /\ last' = t.last

\* the state handleFiles starts from; "last" keeps the files it was given
EnterFiles(files) ==
    [Enter("handleFiles", NoTrack)
        EXCEPT !.last = [op |-> "handleFiles", index |-> NoTrack,
                         cur |-> currentTrackIndex, files |-> files]]

\* handleFileSelect / handleDrop
AddFiles ==
    \E files \in Batches :
        /\ Len(playlist) + NumAccepted(files) <= MaxLen
        /\ nextUrl + NumAccepted(files) <= MaxUrls + 1
        /\ Becomes(handleFiles(EnterFiles(files), files))

\* click on a row of the rendered playlist
TrackClickAt(index) ==
    Becomes(loadTrack(Enter("loadTrack", index), index))

TrackClick == \E index \in 0..(rows - 1) : TrackClickAt(index)

\* click on the remove button of a row
RemoveClickAt(index) ==
    Becomes(removeTrack(Enter("removeTrack", index), index))

RemoveClick == \E index \in 0..(rows - 1) : RemoveClickAt(index)

PlayClick ==
    \E s \in {Enter("togglePlay", NoTrack)} : Becomes(togglePlay(s))

PrevClick ==
    \E s \in {Enter("playPrev", NoTrack)} : Becomes(playPrev(s))

NextClick ==
    \E s \in {Enter("playNext", NoTrack)} : Becomes(playNext(s))

\* click x pixels into the progress bar, Duration pixels wide
SeekClick ==
    \E x \in 0..Duration :
        \E s \in {Enter("seekTo", x)} : Becomes(seekTo(s, x, Duration))

\* the element learns the duration; 'loadedmetadata' runs updateDuration
OnLoadedMetadata ==
    /\ src # NoSrc /\ src # EmptySrc
    /\ ~durationKnown
    /\ pending # "error"
    /\ Becomes([Enter("loadedmetadata", NoTrack)
                   EXCEPT !.durationKnown = TRUE])

\* playback advances; 'timeupdate' runs updateProgress
OnTimeUpdate ==
    /\ enginePlaying /\ durationKnown
    /\ currentTime < Duration
    /\ Becomes([Enter("timeupdate", NoTrack) EXCEPT !.currentTime = @ + 1])

\* the promise of play() is rejected before playback begins (the page may
\* not start audio): the element stays paused and no event follows
PlayRejected ==
    /\ enginePlaying /\ ~durationKnown
    /\ Becomes([Engine EXCEPT !.enginePlaying = FALSE])

\* playback reaches the end of the track: the element stops and queues 'ended'
EngineEnds ==
    /\ enginePlaying /\ durationKnown
    /\ currentTime = Duration
    /\ Becomes([Engine EXCEPT !.enginePlaying = FALSE, !.pending = "ended"])

\* the element fails on its resource: it stops and queues 'error'
EngineFails ==
    /\ src # NoSrc
    /\ pending # "error"
    /\ Becomes([Engine EXCEPT !.enginePlaying = FALSE, !.pending = "error"])

\* 'ended' is delivered
OnEnded ==
    /\ pending = "ended"
    /\ Becomes(playNext([Enter("ended", NoTrack) EXCEPT !.pending = "none"]))

\* 'error' is delivered
OnError ==
    /\ pending = "error"
    /\ Becomes(handleAudioError(
                   [Enter("error", NoTrack) EXCEPT !.pending = "none"]))

Next ==
    \/ AddFiles
    \/ TrackClick
    \/ RemoveClick
    \/ PlayClick
    \/ PrevClick
    \/ NextClick
    \/ SeekClick
    \/ OnLoadedMetadata
    \/ OnTimeUpdate
    \/ PlayRejected
    \/ EngineEnds
    \/ EngineFails
    \/ OnEnded
    \/ OnError

Spec == Init /\ [][Next]_vars

\* the player driven by adding and removing tracks alone
NextAddRemove == AddFiles \/ RemoveClick

SpecAddRemove == Init /\ [][NextAddRemove]_vars

\* one file dropped on the page
DropOne ==
    \E file \in ValidatorFiles :
        /\ Len(playlist) < MaxLen
        /\ nextUrl <= MaxUrls
        /\ Becomes(handleFiles(EnterFiles(<<file>>), <<file>>))

\* the player given one file after another
SpecValidate == Init /\ [][DropOne]_vars

\* the variables hold the state t
Holds(t) ==
    /\ playlist = t.playlist
    /\ currentTrackIndex = t.currentTrackIndex
    /\ isPlaying = t.isPlaying
    /\ src = t.src
    /\ enginePlaying = t.enginePlaying
    /\ currentTime = t.currentTime
    /\ durationKnown = t.durationKnown
    /\ pending = t.pending
    /\ nextUrl = t.nextUrl
    /\ revoked = t.revoked
    /\ rows = t.rows
    /\ activeRow = t.activeRow
    /\ currentTrackEl = t.currentTrackEl
    /\ playBtn = t.playBtn
    /\ notes = t.notes
    /\ thrown = t.thrown
    /\ srcRevoked = t.srcRevoked
    /\ last = t.last

\* the files of one drop, all of them accepted
LoopBatches == UNION {[1..n -> AcceptedFiles] : n \in 1..MaxLen}

\* the player left alone after the user has dropped files on the empty page
\* and clicked one row: the element plays, learns durations, reaches the end
\* of each track and delivers 'ended'; nothing fails and nobody clicks
InitLoop ==
    \E files \in LoopBatches :
        \E index \in 0..(Len(files) - 1) :
            Holds(loadTrack(
                      Begin(handleFiles(Begin(InitState, "handleFiles",
                                              NoTrack), files),
                            "loadTrack", index),
                      index))

NextLoop ==
    \/ OnLoadedMetadata
    \/ OnTimeUpdate
    \/ EngineEnds
    \/ OnEnded

\* the element keeps playing what it was given and every queued 'ended' is
\* delivered
SpecLoop ==
    /\ InitLoop
    /\ [][NextLoop]_vars
    /\ WF_vars(OnLoadedMetadata)
    /\ WF_vars(OnTimeUpdate)
    /\ WF_vars(EngineEnds)
    /\ WF_vars(OnEnded)

-----------------------------------------------------------------------------
(* Properties *)

NoTrackLoaded == src = NoSrc \/ src = EmptySrc

Idle ==
    /\ playlist = <<>>
    /\ currentTrackIndex = NoTrack
    /\ ~isPlaying
    /\ ~enginePlaying
    /\ src = EmptySrc

\* C1: in every reachable state currentTrackIndex is -1 or an index of the
\* playlist, whatever the user and the media element do.
C1_IndexInRange ==
    currentTrackIndex = NoTrack \/ InRange(playlist, currentTrackIndex)

\* C2: when tracks are only added and removed, currentTrackIndex is always
\* -1 or an index of the playlist.
C2_IndexNeverDangling ==
    currentTrackIndex \in {NoTrack} \cup (0..(Len(playlist) - 1))

\* C2 witness: tracks were added, and the current track, the only one left,
\* was removed.
C2_Witness ==
    /\ last.op = "removeTrack"
    /\ last.index = last.cur
    /\ playlist = <<>>
    /\ Cardinality(revoked) >= 2
    /\ currentTrackIndex = NoTrack

C4_FlagMatchesEngine ==
    last.op # "engine" => (isPlaying <=> enginePlaying)

\* C5: handleFiles leaves currentTrackIndex alone unless the playlist was
\* empty; when it was empty and a file is accepted, track 0 is selected, its
\* URL is the element's source and isPlaying is TRUE.
C5_AddSelectsOnlyWhenEmpty ==
    [][last'.op = "handleFiles" =>
         /\ (playlist # <<>> \/ playlist' = <<>>) =>
                currentTrackIndex' = currentTrackIndex
         /\ (playlist = <<>> /\ playlist' # <<>>) =>
                /\ currentTrackIndex' = 0
                /\ isPlaying'
                /\ src' = At(playlist', 0).url]_vars

\* C6: removing the current track when it is the only one leaves the player
\* idle: empty playlist, no selection, not playing, element paused with its
\* source cleared.
C6_RemoveOnlyTrackGoesIdle ==
    [][(/\ last'.op = "removeTrack"
        /\ Len(playlist) = 1
        /\ last'.index = currentTrackIndex) => Idle']_vars

\* C6 witness: the only track, current, was removed.
C6_Witness ==
    /\ last.op = "removeTrack"
    /\ last.index = 0
    /\ last.cur = 0
    /\ rows = 0
    /\ Idle

\* C7: removing a track other than the current one shifts currentTrackIndex
\* down by one if it was before it, leaves it otherwise, and leaves
\* isPlaying and the media element as they were.
C7_RemoveOtherKeepsPlayback ==
    [][(/\ last'.op = "removeTrack"
        /\ ~thrown'
        /\ last'.index # currentTrackIndex) =>
           /\ currentTrackIndex' = IF last'.index < currentTrackIndex
                                   THEN currentTrackIndex - 1
                                   ELSE currentTrackIndex
           /\ UNCHANGED <<isPlaying, src, enginePlaying, currentTime,
                          durationKnown>>]_vars

\* C7 witness: a track before the playing one was removed in mid-playback.
C7_Witness ==
    /\ last.op = "removeTrack"
    /\ last.index < last.cur
    /\ currentTrackIndex = last.cur - 1
    /\ isPlaying /\ enginePlaying
    /\ currentTime > 0

\* the scenario of C8: three files added, track 0 removed, next, next
ScenarioFiles ==
    <<File(Name_a_mp3, "audio/mpeg", 1), File(Name_b_MP3, "", 1),
      File(Name_a_mp3, "audio/mpeg", 1)>>

ScenarioHolds ==
    LET s1 == handleFiles(InitState, ScenarioFiles)
        s2 == removeTrack(s1, 0)
        s3 == playNext(s2)
        s4 == playNext(s3)
    IN /\ Len(s1.playlist) = 3
       /\ s1.currentTrackIndex = 0 /\ s1.isPlaying
       /\ s2.currentTrackIndex = 0 /\ s2.isPlaying
       /\ At(s2.playlist, 0) = At(s1.playlist, 1)
       /\ s2.src = At(s1.playlist, 1).url
       /\ s3.currentTrackIndex = 1 /\ s3.src = At(s1.playlist, 2).url
       /\ s4.currentTrackIndex = 0 /\ s4.src = At(s1.playlist, 1).url

\* C8: removing the current track while others remain selects and plays the
\* track that slid into its place, or the new last track if it was last;
\* and the scenario ends on indices 0, 0, 1, 0.
C8_RemoveCurrentLoadsNeighbour ==
    [][(/\ last'.op = "removeTrack"
        /\ last'.index = currentTrackIndex
        /\ Len(playlist) > 1) =>
           LET i == currentTrackIndex
               wasLast == i = Len(playlist) - 1
               target == IF wasLast THEN At(playlist, i - 1)
                         ELSE At(playlist, i + 1)
           IN /\ ScenarioHolds
              /\ currentTrackIndex' = IF wasLast THEN i - 1 ELSE i
              /\ At(playlist', currentTrackIndex') = target
              /\ src' = target.url
              /\ isPlaying']_vars

\* C8 witness: the current track, last of several and paused, was removed
\* and the new last track plays.
C8_Witness ==
    /\ last.op = "removeTrack"
    /\ last.index = last.cur
    /\ last.index = Len(playlist)
    /\ Len(playlist) >= 2
    /\ currentTrackIndex = Len(playlist) - 1
    /\ src = At(playlist, currentTrackIndex).url
    /\ isPlaying

\* C9: with a track selected, playNext goes one up and from the last track
\* to the first, playPrev one down and from the first to the last; the
\* track reached is loaded and isPlaying is TRUE.
C9_PrevNextWrap ==
    [][(/\ last'.op \in {"playNext", "playPrev"}
        /\ InRange(playlist, currentTrackIndex)) =>
           LET n == Len(playlist)
               c == currentTrackIndex
               target == IF last'.op = "playNext"
                         THEN (IF c < n - 1 THEN c + 1 ELSE 0)
                         ELSE (IF c > 0 THEN c - 1 ELSE n - 1)
           IN /\ currentTrackIndex' = target
              /\ src' = At(playlist, target).url
              /\ isPlaying'
              /\ playlist' = playlist]_vars

\* C9 witness: playNext on the last of several tracks wrapped to the first.
C9_Witness ==
    /\ last.op = "playNext"
    /\ Len(playlist) >= 2
    /\ last.cur = Len(playlist) - 1
    /\ currentTrackIndex = 0
    /\ src = At(playlist, 0).url
    /\ isPlaying

\* C10: on an empty playlist playPrev, playNext and 'ended' change nothing:
\* no selection, not playing, nothing loaded; and a loadTrack that fails on
\* its index leaves currentTrackIndex as it was.
C10_EmptyPlaylistNoOp ==
    [][last'.op \in {"playPrev", "playNext", "ended"} =>
         /\ playlist = <<>> =>
                /\ currentTrackIndex' = NoTrack
                /\ ~isPlaying'
                /\ playlist' = <<>>
                /\ src' = src
         /\ thrown' => currentTrackIndex' = currentTrackIndex]_vars

\* C11: togglePlay pauses a playing track and resumes a paused one without
\* touching the index, the playlist or the source; with nothing selected and
\* an empty playlist it changes nothing and shows one warning; with nothing
\* selected and tracks present it loads track 0.
C11_TogglePlay ==
    [][last'.op = "togglePlay" =>
         /\ (currentTrackIndex # NoTrack) =>
                /\ isPlaying' = ~isPlaying
                /\ isPlaying => ~enginePlaying'
                /\ (~isPlaying /\ ~NoTrackLoaded) => enginePlaying'
                /\ UNCHANGED <<currentTrackIndex, playlist, src>>
                /\ notes' = <<>>
         /\ (currentTrackIndex = NoTrack /\ playlist = <<>>) =>
                /\ UNCHANGED <<currentTrackIndex, playlist, src, isPlaying,
                               enginePlaying, currentTime, durationKnown>>
                /\ Len(notes') = 1
                /\ notes'[1].type = "warning"
         /\ (currentTrackIndex = NoTrack /\ playlist # <<>>) =>
                /\ currentTrackIndex' = 0
                /\ src' = At(playlist, 0).url
                /\ isPlaying'
         /\ ~thrown']_vars

\* C11 witness: a paused track was resumed in mid-playback.
C11_Witness ==
    /\ last.op = "togglePlay"
    /\ last.cur >= 0
    /\ isPlaying /\ enginePlaying
    /\ currentTime > 0
    /\ src = At(playlist, currentTrackIndex).url

\* C12: when 'error' is delivered the handler leaves the index alone, sets
\* isPlaying to FALSE with the element stopped, and shows one notification
\* of type error.
C12_ErrorPauses ==
    [][last'.op = "error" =>
         /\ UNCHANGED <<currentTrackIndex, playlist, src>>
         /\ ~isPlaying'
         /\ ~enginePlaying'
         /\ playBtn' = GlyphPlay
         /\ Len(notes') = 1
         /\ notes'[1].type = "error"
         /\ ~thrown']_vars

\* C12 witness: an error arrived while a selected track was playing.
C12_Witness ==
    /\ last.op = "error"
    /\ last.cur >= 0
    /\ currentTrackIndex = last.cur
    /\ src = At(playlist, currentTrackIndex).url
    /\ ~isPlaying
    /\ Len(notes) = 1

\* C13: audioPlayer.src is never a revoked URL, neither between handlers
\* nor at any statement inside one: the source is replaced or cleared no
\* later than the URL is revoked.
C13_SrcNeverRevoked ==
    /\ src \notin revoked
    /\ ~srcRevoked

\* URLs of the tracks in the playlist
PlaylistUrls == {playlist[i].url : i \in 1..Len(playlist)}

\* URLs handed out so far by URL.createObjectURL
IssuedUrls == 1..(nextUrl - 1)

\* C14: every track holds its own URL; a URL is revoked only by removeTrack,
\* which revokes the URL of the track it removes, once; no track in the
\* playlist holds a revoked URL and every URL handed out is either held by
\* a track or revoked.
C14_UrlLifecycle ==
    /\ [](/\ \A i, j \in 1..Len(playlist) :
                 playlist[i].url = playlist[j].url => i = j
          /\ PlaylistUrls \cap revoked = {}
          /\ PlaylistUrls \cup revoked = IssuedUrls)
    /\ [][/\ revoked' # revoked => last'.op = "removeTrack"
          /\ (last'.op = "removeTrack" /\ ~thrown') =>
                 /\ At(playlist, last'.index).url \notin revoked
                 /\ revoked' = revoked \cup {At(playlist, last'.index).url}
          /\ last'.op = "handleFiles" =>
                 \A i \in (Len(playlist) + 1)..Len(playlist') :
                     playlist'[i].url \notin IssuedUrls]_vars

\* C14 witness: a track other than the current one was removed while an
\* earlier track's URL was already revoked and another track is still held.
C14_Witness ==
    /\ last.op = "removeTrack"
    /\ last.index # last.cur
    /\ Cardinality(revoked) >= 2
    /\ playlist # <<>>
    /\ src \in PlaylistUrls

\* the state after k deliveries of 'ended' in a row
RECURSIVE AfterEnded(_, _)
AfterEnded(s, k) == IF k = 0 THEN s ELSE AfterEnded(playNext(s), k - 1)

\* C15: 'ended' acts as playNext: it loads and plays the next track, the
\* first after the last.  With a selected track, no user action and every
\* 'ended' delivered, each track of the playlist is loaded and played again
\* and again, and as many 'ended' events as there are tracks bring
\* currentTrackIndex back to where it was.
C15_EndedLoopsForever ==
    /\ [][last'.op = "ended" =>
              /\ currentTrackIndex' = (currentTrackIndex + 1) % Len(playlist)
              /\ src' = At(playlist, currentTrackIndex').url
              /\ isPlaying' /\ enginePlaying'
              /\ playlist' = playlist
              /\ ~thrown']_vars
    /\ [](AfterEnded(State, Len(playlist)).currentTrackIndex
              = currentTrackIndex)
    /\ \A i \in 0..(MaxLen - 1) :
           []<>(i < Len(playlist) =>
                    /\ currentTrackIndex = i
                    /\ src = At(playlist, i).url
                    /\ isPlaying /\ enginePlaying
                    /\ currentTime > 0)

\* C15 witness: 'ended' after the last of several tracks has wrapped to the
\* first.
C15_Witness ==
    /\ last.op = "ended"
    /\ Len(playlist) >= 2
    /\ last.cur = Len(playlist) - 1
    /\ currentTrackIndex = 0
    /\ isPlaying /\ enginePlaying

\* the extension of a file name: what starts at its last ".", in lower case
Extension(name) ==
    LET dots == {i \in 1..Len(name) : name[i] = "."}
    IN IF dots = {} THEN <<>>
       ELSE toLowerCase(SubSeq(name,
                               CHOOSE i \in dots : \A k \in dots : k <= i,
                               Len(name)))

\* the verdict the claim gives a file
Verdict(file) ==
    IF file.size > 52428800 THEN "TooLarge"
    ELSE IF \/ file.type \in validMimeTypes
            \/ /\ file.type \notin validMimeTypes
               /\ Extension(file.name) \in validExtensions
         THEN "Accepted"
         ELSE "UnsupportedType"

\* C16: a file is accepted exactly when it is at most 52,428,800 bytes and
\* its type is a listed one or, failing that, its extension is one of .mp3,
\* .mp2, .mpga, .mpg, .mpeg in any case; a larger file is rejected for its
\* size whatever its type, any other for its type; an accepted file adds one
\* track with a new URL, a rejected one adds no track and takes no URL.
C16_Validation ==
    [][last'.op = "handleFiles" =>
         /\ Validate(last'.files[1]) = Verdict(last'.files[1])
         /\ Verdict(last'.files[1]) = "Accepted" =>
                /\ Len(playlist') = Len(playlist) + 1
                /\ SubSeq(playlist', 1, Len(playlist)) = playlist
                /\ playlist'[Len(playlist')].url = nextUrl
                /\ nextUrl' = nextUrl + 1
                /\ notes' = <<>>
         /\ Verdict(last'.files[1]) # "Accepted" =>
                /\ playlist' = playlist
                /\ nextUrl' = nextUrl
                /\ Len(notes') = 1
                /\ notes'[1].count = 1]_vars

\* C16 witness: a file of exactly the limit with no type and an upper-case
\* extension was taken as the first track.
C16_Witness ==
    /\ last.op = "handleFiles"
    /\ last.files = <<File(<<"t", ".", "M", "P", "3">>, "", MAX_FILE_SIZE)>>
    /\ Len(playlist) = 1
    /\ playlist[1].url = 1
    /\ nextUrl = 2
    /\ notes = <<>>

\* C17: seekTo with no track selected raises nothing and changes neither the
\* position nor any playback state; seekTo while the duration is unknown
\* raises nothing and leaves the position or sets it to 0; with a selected
\* track and a known duration it sets the position to fraction * duration.
C17_SeekGuarded ==
    [][last'.op = "seekTo" =>
         /\ currentTrackIndex = NoTrack =>
                /\ ~thrown'
                /\ UNCHANGED <<currentTime, currentTrackIndex, isPlaying,
                               src, enginePlaying, playlist>>
         /\ ~durationKnown =>
                /\ ~thrown'
                /\ currentTime' \in {currentTime, 0}
         /\ (currentTrackIndex # NoTrack /\ durationKnown) =>
                /\ ~thrown'
                /\ currentTime' = (last'.index * Duration) \div Duration]_vars

\* the tracks the claim has handleFiles append: one for each accepted file,
\* in the order given, each with the next unused URL
RECURSIVE Appended(_, _)
Appended(files, url) ==
    IF files = <<>> THEN <<>>
    ELSE IF Head(files) \in AcceptedFiles
         THEN <<[name |-> StripExt(Head(files).name), url |-> url]>>
                  \o Appended(Tail(files), url + 1)
         ELSE Appended(Tail(files), url)

\* C18: handleFiles appends the accepted files in the order given and keeps
\* the tracks already there; removeTrack(i) deletes the track at position i
\* and keeps the others in order; no other handler and no step of the
\* element changes the playlist.
C18_PlaylistFrame ==
    [][/\ last'.op = "handleFiles" =>
              playlist' = playlist \o Appended(last'.files, nextUrl)
       /\ (last'.op = "removeTrack" /\ ~thrown') =>
              /\ Len(playlist') = Len(playlist) - 1
              /\ \A i \in 1..Len(playlist') :
                     playlist'[i] = IF i <= last'.index
                                    THEN playlist[i]
                                    ELSE playlist[i + 1]
       /\ last'.op \notin {"handleFiles", "removeTrack"} =>
              playlist' = playlist]_vars

\* C18 witness: the middle one of three tracks, two of them of the same
\* name, was removed.
C18_Witness ==
    /\ last.op = "removeTrack"
    /\ last.index = 1
    /\ Len(playlist) = 2
    /\ playlist[1].name = playlist[2].name
    /\ playlist[1].url < playlist[2].url

\* C19: after every handler, whenever a track is selected the element's
\* source is the URL of that track and the name shown is that track's name.
C19_SelectedIsLoaded ==
    InRange(playlist, currentTrackIndex) =>
        /\ src = At(playlist, currentTrackIndex).url
        /\ currentTrackEl = At(playlist, currentTrackIndex).name

\* C20: a playlist with tracks in it always has a selected track, so
\* togglePlay never finds tracks and no selection.
C20_NonEmptyHasSelection ==
    /\ [](Len(playlist) > 0 => currentTrackIndex # NoTrack)
    /\ [][last'.op = "togglePlay" =>
              ~(currentTrackIndex = NoTrack /\ Len(playlist) > 0)]_vars

\* C20 witness: togglePlay ran with no selection, on the playlist emptied by
\* removing its only track.
C20_Witness ==
    /\ last.op = "togglePlay"
    /\ last.cur = NoTrack
    /\ revoked # {}
    /\ playlist = <<>>
    /\ Len(notes) = 1

====
